---- MODULE Spec2Model ----
(***************************************************************************)
(* Antibody (src/main.py): the adaptive invisible-character insertion      *)
(* routine and the two handlers of the window that calls it.               *)
(*                                                                         *)
(* A character is modelled by a string: a printable ASCII character by     *)
(* itself ("a", ","), every other code point by its name ("U+200B"; the  *)
(* backslash, the double quote and the backtick are named too).       *)
(* A text is a sequence of characters.  Python indices are 0-based and the *)
(* model keeps them: At(s, j) is Python's s[j].                            *)
(***************************************************************************)
EXTENDS Integers, Sequences, FiniteSets, TLC

VARIABLES
    text,              \* argument `text` of insert_adaptive_invisible_traps
    level,             \* name of the level whose configuration is the argument
    pc,                \* position of the running call / handler
    result,            \* local list `result`
    origin,            \* history: for each element of result, the index of the
                       \* code point of text it is, or Inserted
    i,                 \* loop variable of the scan
    prev_char,         \* local prev_char of the scan
    next_char,         \* local next_char of the scan
    char_count,        \* local char_count
    insert_positions,  \* local insert_positions
    rev_idx,           \* number of elements reversed(insert_positions) has left
    drawn,             \* history: boundaries at which random.random() was called
    choices,           \* history: number of random.choice() calls
    ret,               \* value returned by the last call
    input_edit,        \* text of the QLineEdit
    level_combo,       \* current text of the QComboBox
    result_edit,       \* text set on the QTextEdit
    copy_enabled,      \* enabled state of the copy button
    clipboard,         \* text of the clipboard
    dialog,            \* message box shown by the most recent handler
    event,             \* history: the handler the most recent user event ran
    ops                \* number of user events handled so far

vars == <<text, level, pc, result, origin, i, prev_char, next_char, char_count,
          insert_positions, rev_idx, drawn, choices, ret, input_edit,
          level_combo, result_edit, copy_enabled, clipboard, dialog,
          event, ops>>

callVars == <<text, level, pc, result, origin, i, prev_char, next_char,
              char_count, insert_positions, rev_idx, drawn, choices, ret>>

guiVars == <<input_edit, level_combo, result_edit, copy_enabled, clipboard,
             dialog, event, ops>>

----------------------------------------------------------------------------
(* Bounds of the model *)

\* longest text over Alphabet given to a direct call
MaxLen == 3
\* longest text over LongAlphabet given to a direct call
MaxRun == 6
\* number of user events a run of the window handles
MaxOps == 4

----------------------------------------------------------------------------
(* Configuration tables *)

INVISIBLE_CHAR_POOLS ==
    [ Basic     |-> <<"U+200B", "U+200C", "U+200D">>,
      Expansion |-> <<"U+00A0", "U+0009", "U+200E">>,
      Spare     |-> <<"U+202F", "U+2060", "U+FEFF">> ]

PoolNames == {"Basic", "Expansion", "Spare"}

\* Implantation Probability is kept in tenths (0.2, 0.5, 0.8).
INTERFERENCE_LEVELS ==
    [ Mild     |-> [Interval |-> 5, Probability |-> 2,
                    Pool |-> <<"Basic">>],
      Moderate |-> [Interval |-> 3, Probability |-> 5,
                    Pool |-> <<"Basic", "Expansion">>],
      Severe   |-> [Interval |-> 2, Probability |-> 8,
                    Pool |-> <<"Basic", "Expansion", "Spare">>] ]

LevelNames == {"Mild", "Moderate", "Severe"}

\* random.random() in tenths: d stands for a value in [d/10, (d+1)/10).
DrawGrid == 0..9

\* The raw string literal of line 24, character by character: the ASCII
\* punctuation, the space, the two characters the file holds where a CJK
\* space was meant (U+00E3 and U+20AC), and the letters t, n, r of the
\* unprocessed escapes \t \n \r (the backslash is already in the set).
INVALID_POS_CHARS ==
    { "!", "U+005C", "U+0022", "#", "$", "%", "&", "'", "(", ")", "*", "+", ",", "-",
      ".", "/", ":", ";", "<", "=", ">", "?", "@", "[", "]", "^", "_", "U+0060",
      "{", "|", "}", "~", " ", "U+00E3", "U+20AC", "t", "n", "r" }

\* The characters str.strip() removes, among the characters of the model.
WHITESPACE ==
    { " ", "U+0009", "U+000A", "U+000D", "U+00A0", "U+202F", "U+3000" }

\* line 63: what origin records for an element result.insert() added
Inserted == -1

----------------------------------------------------------------------------
(* Sequence helpers *)

At(s, j) == s[j + 1]

SetMin(S) == CHOOSE x \in S : \A y \in S : x <= y
SetMax(S) == CHOOSE x \in S : \A y \in S : x >= y

\* str.strip()
Strip(s) ==
    LET keep == { j \in 1..Len(s) : s[j] \notin WHITESPACE }
    IN  IF keep = {} THEN <<>> ELSE SubSeq(s, SetMin(keep), SetMax(keep))

ListOverwrite(s, pos, x) == [s EXCEPT ![pos + 1] = x]
\* list.insert(pos, x): x is put before the element at index pos
ListInsert(s, pos, x) ==
    LET p == IF pos > Len(s) THEN Len(s) ELSE pos
    IN  SubSeq(s, 1, p) \o <<x>> \o SubSeq(s, p + 1, Len(s))

RECURSIVE Flatten(_, _)
Flatten(pools, names) ==
    IF names = <<>> THEN <<>>
    ELSE pools[Head(names)] \o Flatten(pools, Tail(names))

\* the values get_random_invisible_char(used_pools) can return
get_random_invisible_char(used_pools) ==
    LET all_chars == Flatten(INVISIBLE_CHAR_POOLS, used_pools)
    IN  { all_chars[j] : j \in 1..Len(all_chars) }

is_valid_insert_pos(p, n) ==
    IF p \in INVALID_POS_CHARS \/ n \in INVALID_POS_CHARS THEN FALSE ELSE TRUE

----------------------------------------------------------------------------
(* The parts of insert_adaptive_invisible_traps *)

\* line 41: not text.strip()
IsBlankText(t) == Strip(t) = <<>>

InitialResultTrimmed(t) == Strip(t)
\* line 48: result = list(text)
InitialResult(t) == t

TestedCountBeforeIncrement(c) == c
\* lines 57-58: the value of char_count the modulus test reads, c being the
\* value before the boundary was counted
TestedCount(c) == c + 1

DrawAlways(count, interval) == TRUE
\* line 58: `and` evaluates random.random() only if the modulus test holds
DrawConsumed(count, interval) == count % interval = 0

\* line 58: random.random() < prob
Hit(d, prob) == d < prob

\* line 62: the element reversed(insert_positions) yields when it has k left
ReversedNext(positions, k) == positions[k]

EndMarkLenOne == 2 - 1
\* line 66: range(2)
EndMarkLen == 2

AnyPoolChar(used_pools) ==
    get_random_invisible_char(<<"Basic", "Expansion", "Spare">>)
\* lines 63, 66: the characters a call with the level's pools can add
LevelChars(used_pools) == get_random_invisible_char(used_pools)

\* line 66: the values of end_mark
EndMarks(used_pools) == [1..EndMarkLen -> LevelChars(used_pools)]

Cfg(l) == INTERFERENCE_LEVELS[l]

----------------------------------------------------------------------------
(* Inputs *)

Alphabet == {"a", "t", ",", " ", "U+0009", "U+200B"}
LongAlphabet == {"a", ","}

SeqsUpTo(S, lo, hi) == UNION { [1..n -> S] : n \in lo..hi }

ScenarioTexts == { <<"H", "i">>, <<"a", ",", "b">> }

DirectInputs ==
    SeqsUpTo(Alphabet, 0, MaxLen) \cup SeqsUpTo(LongAlphabet, MaxLen + 1, MaxRun)
        \cup ScenarioTexts

GuiInputs ==
    { <<>>, <<" ">>, <<"U+00A0">>, <<"a">>, <<" ", "a", "b", " ">>,
      <<"a", "a", "a">> }

----------------------------------------------------------------------------
(* Initial states *)

NoCall ==
    /\ result = <<>>
    /\ origin = <<>>
    /\ i = 0
    /\ prev_char = ""
    /\ next_char = ""
    /\ char_count = 0
    /\ insert_positions = <<>>
    /\ rev_idx = 0
    /\ drawn = {}
    /\ choices = 0
    /\ ret = <<>>

\* the window after initUI
GuiInit ==
    /\ input_edit = <<>>
    /\ level_combo = "Mild"
    /\ result_edit = <<>>
    /\ copy_enabled = FALSE
    /\ clipboard = <<>>
    /\ dialog = "none"
    /\ event = "none"
    /\ ops = 0

\* a direct call of insert_adaptive_invisible_traps(text, INTERFERENCE_LEVELS[level])
Init ==
    /\ text \in DirectInputs
    /\ level \in LevelNames
    /\ pc = "entry"
    /\ NoCall
    /\ GuiInit

----------------------------------------------------------------------------
(* insert_adaptive_invisible_traps, lines 39-67 *)

\* lines 41-50: the emptiness test, and the locals of the scan
Entry ==
    /\ pc = "entry"
    /\ IF IsBlankText(text)
       THEN /\ ret' = <<>>
            /\ pc' = "done"
            /\ UNCHANGED <<result, origin, i, char_count, insert_positions>>
       ELSE /\ result' = InitialResult(text)
            /\ origin' = [j \in 1..Len(InitialResult(text)) |-> j - 1]
            /\ char_count' = 0
            /\ insert_positions' = <<>>
            /\ i' = 1
            /\ pc' = "scan"
            /\ UNCHANGED ret
    /\ UNCHANGED <<text, level, prev_char, next_char, rev_idx, drawn, choices>>
    /\ UNCHANGED guiVars

\* lines 53-59, one iteration
ScanStep ==
    /\ pc = "scan"
    /\ i < Len(result)
    /\ LET p == At(result, i - 1)
           n == At(result, i)
           cfg == Cfg(level)
       IN  /\ prev_char' = p
           /\ next_char' = n
           /\ IF is_valid_insert_pos(p, n)
              THEN /\ char_count' = char_count + 1
                   /\ IF DrawConsumed(TestedCount(char_count), cfg.Interval)
                      THEN /\ drawn' = drawn \cup {i}
                           /\ \E d \in DrawGrid :
                                insert_positions' =
                                    IF Hit(d, cfg.Probability)
                                    THEN Append(insert_positions, i)
                                    ELSE insert_positions
                      ELSE UNCHANGED <<drawn, insert_positions>>
              ELSE UNCHANGED <<char_count, drawn, insert_positions>>
    /\ i' = i + 1
    /\ UNCHANGED <<text, level, pc, result, origin, rev_idx, choices, ret>>
    /\ UNCHANGED guiVars

\* line 53 exhausted, line 62 starts
ScanExit ==
    /\ pc = "scan"
    /\ i >= Len(result)
    /\ rev_idx' = Len(insert_positions)
    /\ pc' = "insert"
    /\ UNCHANGED <<text, level, result, origin, i, prev_char, next_char,
                   char_count, insert_positions, drawn, choices, ret>>
    /\ UNCHANGED guiVars

\* lines 62-63, one iteration
InsertStep ==
    /\ pc = "insert"
    /\ rev_idx > 0
    /\ LET pos == ReversedNext(insert_positions, rev_idx)
       IN  \E c \in LevelChars(Cfg(level).Pool) :
              /\ result' = ListInsert(result, pos, c)
              /\ origin' = ListInsert(origin, pos, Inserted)
    /\ rev_idx' = rev_idx - 1
    /\ choices' = choices + 1
    /\ UNCHANGED <<text, level, pc, i, prev_char, next_char, char_count,
                   insert_positions, drawn, ret>>
    /\ UNCHANGED guiVars

\* line 62 exhausted: the call is at lines 66-67
AtReturn == pc = "insert" /\ rev_idx = 0

\* line 67: the values the call can return from its current state
ReturnValues ==
    { result \o <<" ">> \o end_mark : end_mark \in EndMarks(Cfg(level).Pool) }

\* lines 66-67
EndMarkReturn ==
    /\ AtReturn
    /\ \E v \in ReturnValues : ret' = v
    /\ choices' = choices + EndMarkLen
    /\ pc' = "done"
    /\ UNCHANGED <<text, level, result, origin, i, prev_char, next_char,
                   char_count, insert_positions, rev_idx, drawn>>
    /\ UNCHANGED guiVars

\* the loops of the call
CallBody == Entry \/ ScanStep \/ ScanExit \/ InsertStep

Call == CallBody \/ EndMarkReturn

Next == Call

Spec == Init /\ [][Next]_vars

----------------------------------------------------------------------------
(* AntiAIToolGUI, lines 70-204 *)

RawInputUntrimmed(t) == t
\* line 176: self.input_edit.text().strip()
RawInput(t) == Strip(t)

\* line 194: QTextEdit.toPlainText(); Qt returns the document's text with
\* every no-break space (U+00A0) replaced by a space
toPlainText(s) == [j \in 1..Len(s) |-> IF s[j] = "U+00A0" THEN " " ELSE s[j]]

\* line 194: self.result_edit.toPlainText().strip()
CopiedText(s) == Strip(toPlainText(s))

\* the window after initUI, no handler running
GuiSpecInit ==
    /\ text = <<>>
    /\ level = "Mild"
    /\ pc = "idle"
    /\ NoCall
    /\ GuiInit

\* the user replaces the text of the input line
EditInput ==
    /\ pc = "idle"
    /\ ops < MaxOps
    /\ \E t \in GuiInputs : input_edit' = t
    /\ event' = "edit"
    /\ dialog' = "none"
    /\ ops' = ops + 1
    /\ UNCHANGED <<level_combo, result_edit, copy_enabled, clipboard>>
    /\ UNCHANGED callVars

\* the user picks an item of the combo box (line 105)
SelectLevel ==
    /\ pc = "idle"
    /\ ops < MaxOps
    /\ \E l \in LevelNames : level_combo' = l
    /\ event' = "select"
    /\ dialog' = "none"
    /\ ops' = ops + 1
    /\ UNCHANGED <<input_edit, result_edit, copy_enabled, clipboard>>
    /\ UNCHANGED callVars

\* process_input, lines 176-182: the input is empty after strip()
ProcessBlank ==
    /\ pc = "idle"
    /\ ops < MaxOps
    /\ RawInput(input_edit) = <<>>
    /\ dialog' = "Please enter the original content first!"
    /\ event' = "process"
    /\ ops' = ops + 1
    /\ UNCHANGED <<input_edit, level_combo, result_edit, copy_enabled, clipboard>>
    /\ UNCHANGED callVars

\* process_input, lines 176-186: the call of the core routine
ProcessCall ==
    /\ pc = "idle"
    /\ ops < MaxOps
    /\ RawInput(input_edit) # <<>>
    /\ text' = RawInput(input_edit)
    /\ level' = level_combo
    /\ pc' = "entry"
    /\ dialog' = "none"
    /\ event' = "process"
    /\ ops' = ops + 1
    /\ UNCHANGED <<result, origin, i, prev_char, next_char, char_count,
                   insert_positions, rev_idx, drawn, choices, ret>>
    /\ UNCHANGED <<input_edit, level_combo, result_edit, copy_enabled, clipboard>>

\* process_input, lines 186-190: the call returns (lines 66-67, or line 42
\* when it was left at the emptiness test) and its value is displayed; the
\* locals of the call are gone
ProcessShow ==
    /\ pc = "done" \/ AtReturn
    /\ \E v \in (IF pc = "done" THEN {ret} ELSE ReturnValues) :
          /\ ret' = v
          /\ result_edit' = v
    /\ copy_enabled' = TRUE
    /\ pc' = "idle"
    /\ result' = <<>>
    /\ origin' = <<>>
    /\ i' = 0
    /\ prev_char' = ""
    /\ next_char' = ""
    /\ char_count' = 0
    /\ insert_positions' = <<>>
    /\ rev_idx' = 0
    /\ drawn' = {}
    /\ choices' = 0
    /\ UNCHANGED <<text, level>>
    /\ UNCHANGED <<input_edit, level_combo, clipboard, dialog, event, ops>>

\* copy_result, lines 192-204; the button emits clicked only when enabled
CopyResult ==
    /\ pc = "idle"
    /\ ops < MaxOps
    /\ copy_enabled
    /\ LET processed_result == CopiedText(result_edit)
       IN  IF processed_result = <<>>
           THEN /\ dialog' = "No results to copy!"
                /\ UNCHANGED clipboard
           ELSE /\ clipboard' = processed_result
                /\ dialog' = "The result has been successfully copied to the clipboard!"
    /\ event' = "copy"
    /\ ops' = ops + 1
    /\ UNCHANGED <<input_edit, level_combo, result_edit, copy_enabled>>
    /\ UNCHANGED callVars

GuiNext ==
    \/ EditInput
    \/ SelectLevel
    \/ ProcessBlank
    \/ ProcessCall
    \/ CallBody
    \/ ProcessShow
    \/ CopyResult

SpecGUI == GuiSpecInit /\ [][GuiNext]_vars

----------------------------------------------------------------------------
(* Vocabulary of the properties *)

Range(s) == { s[j] : j \in 1..Len(s) }

AllPoolChars == UNION { Range(INVISIBLE_CHAR_POOLS[n]) : n \in PoolNames }

\* s without the characters of any registered pool
StripPools(s) == SelectSeq(s, LAMBDA c : c \notin AllPoolChars)

\* the elements of res that are code points of the input, in order
RECURSIVE Originals(_, _)
Originals(res, org) ==
    IF res = <<>> THEN <<>>
    ELSE IF Head(org) = Inserted THEN Originals(Tail(res), Tail(org))
         ELSE <<Head(res)>> \o Originals(Tail(res), Tail(org))

\* boundaries of t at which is_valid_insert_pos holds
Eligible(t) ==
    { j \in 1..(Len(t) - 1) : is_valid_insert_pos(At(t, j - 1), At(t, j)) }

\* the set the specification describes: ASCII punctuation, the whitespace
\* characters space, tab, newline, carriage return, and the CJK space
AsciiPunctuation ==
    { "!", "U+0022", "#", "$", "%", "&", "'", "(", ")", "*", "+", ",", "-",
      ".", "/", ":", ";", "<", "=", ">", "?", "@", "[", "U+005C", "]", "^",
      "_", "U+0060", "{", "|", "}", "~" }
InvalidPositionCharset ==
    AsciiPunctuation \cup {" ", "U+0009", "U+000A", "U+000D"} \cup {"U+3000"}

Returned == pc = "done"
ReturnedMarked == pc = "done" /\ ~IsBlankText(text)
Hi == <<"H", "i">>
AcommaB == <<"a", ",", "b">>

----------------------------------------------------------------------------
(* C1 *)

\* C1 as stated: for every non-blank input and every level, the output
\* without the characters of any registered pool, and then without the
\* trailing marker, is the input.  The two marker characters are pool
\* characters, so after the first removal the marker that is left to remove
\* is the separating space.
C1_AsStated ==
    ReturnedMarked => StripPools(ret) = text \o <<" ">>

\* C1 amended: the same, for every non-blank input that itself holds no
\* character of a registered pool.
C1_ContentPreservation ==
    (ReturnedMarked /\ Range(text) \cap AllPoolChars = {})
        => StripPools(ret) = text \o <<" ">>

C1_Witness ==
    /\ ReturnedMarked
    /\ Range(text) \cap AllPoolChars = {}
    /\ Inserted \in Range(origin)

----------------------------------------------------------------------------
(* C2 *)

\* C2: is_valid_insert_pos(prev, next) is false iff prev or next is in the
\* set of ASCII punctuation, space, tab, newline, carriage return and the
\* CJK space; checked at every pair the scan has passed to it.
C2_ValidityPredicate ==
    (pc = "scan" /\ i > 1)
        => ( (~is_valid_insert_pos(prev_char, next_char))
               <=> ( prev_char \in InvalidPositionCharset
                     \/ next_char \in InvalidPositionCharset ) )

----------------------------------------------------------------------------
(* C3 *)

\* C3 as stated: for "Hi" the boundary i=1 consumes a random draw (the
\* counter being 0 when it is tested) and the output is "H", at most one
\* pool character, "i", a space and two pool characters.
C3_AsStated ==
    (Returned /\ text = Hi)
        => /\ drawn = {1}
           /\ Len(ret) \in 5..6

\* C3 amended: for "Hi" under every predefined level the boundary i=1 is
\* scanned and counted, the counter is 1 when it is tested, 1 mod interval
\* is not 0, so no draw is consumed and nothing is inserted: the output is
\* "Hi", a space and two characters of the level's pools, of length 5.
C3_HiScenario ==
    /\ (pc = "scan" /\ i = 1) => char_count = 0
    /\ (Returned /\ text = Hi)
          => /\ char_count = 1
             /\ prev_char = "H" /\ next_char = "i"
             /\ drawn = {}
             /\ insert_positions = <<>>
             /\ Len(ret) = 5
             /\ SubSeq(ret, 1, 3) = <<"H", "i", " ">>
             /\ \A j \in 4..5 :
                   \E n \in Range(Cfg(level).Pool) :
                       ret[j] \in Range(INVISIBLE_CHAR_POOLS[n])

C3_Witness == Returned /\ text = Hi /\ Len(ret) = 5 /\ char_count = 1

----------------------------------------------------------------------------
(* C4 *)

\* C4: a text that is empty after trimming returns the empty string, with
\* no marker, no random draw and no random choice, and the call always
\* returns; for any other text the list the scan and the insertions work on
\* holds the code points of the untrimmed text, and so does the output.
C4_BlankInput ==
    /\ (Returned /\ IsBlankText(text))
          => ret = <<>> /\ drawn = {} /\ choices = 0 /\ result = <<>>
    /\ pc \in {"entry", "scan", "insert"} => ENABLED Next
    /\ (pc \in {"scan", "insert", "done"} /\ ~IsBlankText(text))
          => Originals(result, origin) = text
    /\ ReturnedMarked
          => /\ SubSeq(ret, 1, Len(result)) = result
             /\ Len(ret) = Len(result) + 3

C4_Witness ==
    Returned /\ text # <<>> /\ IsBlankText(text) /\ ret = <<>>

----------------------------------------------------------------------------
(* C5 *)

\* C5: for a non-blank input, input length + 3 <= output length <= input
\* length + number of eligible boundaries + 3; with no eligible boundary
\* the output is the input, a space and two characters, and "a,b" is such
\* an input.
C5_LengthBound ==
    /\ ReturnedMarked
          => /\ Len(text) + 3 <= Len(ret)
             /\ Len(ret) <= Len(text) + Cardinality(Eligible(text)) + 3
             /\ Eligible(text) = {}
                   => /\ SubSeq(ret, 1, Len(text) + 1) = text \o <<" ">>
                      /\ Len(ret) = Len(text) + 3
    /\ text = AcommaB => Eligible(text) = {}

C5_Witness ==
    Returned /\ text = AcommaB /\ level = "Mild" /\ Len(ret) = 6

----------------------------------------------------------------------------
(* C6 *)

\* C6: a draw is consumed at a boundary iff the boundary is valid and the
\* count of valid boundaries up to it is a multiple of the interval; the
\* set of boundaries with a draw is a function of the input and the
\* interval alone, whatever the draws were, and only boundaries with a draw
\* are marked.
C6_DrawSet ==
    pc \in {"scan", "insert", "done"}
        => LET valid == Eligible(text)
           IN  /\ drawn = { j \in valid :
                              /\ j < i
                              /\ Cardinality({ k \in valid : k <= j })
                                     % Cfg(level).Interval = 0 }
               /\ Range(insert_positions) \subseteq drawn
               /\ (pc # "scan" /\ ~IsBlankText(text)) => i >= Len(text)

C6_Witness ==
    /\ Returned
    /\ Range(insert_positions) # {}
    /\ Range(insert_positions) # drawn

----------------------------------------------------------------------------
(* C7 *)

\* the pools c belongs to are all pools of the level l, and there is one
OnlyLevelPools(c, l) ==
    /\ \E n \in PoolNames : c \in Range(INVISIBLE_CHAR_POOLS[n])
    /\ \A n \in PoolNames :
          c \in Range(INVISIBLE_CHAR_POOLS[n]) => n \in Range(Cfg(l).Pool)

\* C7: the output for a non-blank input ends with a space and exactly two
\* characters, and every inserted character and both marker characters
\* belong to the pools of the level and to no other pool.
C7_PoolMembership ==
    ReturnedMarked
        => /\ ret = result \o SubSeq(ret, Len(ret) - 2, Len(ret))
           /\ ret[Len(ret) - 2] = " "
           /\ OnlyLevelPools(ret[Len(ret) - 1], level)
           /\ OnlyLevelPools(ret[Len(ret)], level)
           /\ \A j \in 1..Len(result) :
                 origin[j] = Inserted => OnlyLevelPools(result[j], level)
           /\ level = "Mild"
                 => \A j \in 1..Len(ret) :
                       ( \/ j > Len(result) + 1
                         \/ (j <= Len(result) /\ origin[j] = Inserted) )
                           => ret[j] \in Range(INVISIBLE_CHAR_POOLS.Basic)

C7_Witness ==
    ReturnedMarked /\ level = "Mild" /\ Inserted \in Range(origin)

----------------------------------------------------------------------------
(* C8 *)

\* indices of result that hold an inserted character
InsertedAt == { j \in 1..Len(origin) : origin[j] = Inserted }

\* the insertions made so far sit exactly at the boundaries `marked`: one
\* inserted character between code points b-1 and b for each b in marked,
\* none elsewhere, none next to another, the input's code points in order
InsertionsExactlyAt(marked) ==
    /\ Originals(result, origin) = text
    /\ Originals(origin, origin) = [j \in 1..Len(text) |-> j - 1]
    /\ Cardinality(InsertedAt) = Cardinality(marked)
    /\ \A j \in InsertedAt :
          /\ j > 1 /\ j < Len(origin)
          /\ origin[j - 1] # Inserted /\ origin[j + 1] # Inserted
          /\ origin[j + 1] = origin[j - 1] + 1
          /\ origin[j + 1] \in marked

\* no inserted character is next to a character of the set S
NoInsertionNextTo(S) ==
    \A j \in InsertedAt :
        /\ j > 1 => result[j - 1] \notin S
        /\ j < Len(result) => result[j + 1] \notin S

\* insert_positions is in ascending order
Ascending(positions) ==
    \A a, b \in 1..Len(positions) : a < b => positions[a] < positions[b]

\* the order-safety of the insertion loop, with the characters the code
\* itself excludes (INVALID_POS_CHARS)
OrderSafeInsertion ==
    /\ Ascending(insert_positions)
    /\ pc \in {"insert", "done"} /\ ~IsBlankText(text)
          => /\ InsertionsExactlyAt(
                   { insert_positions[k] :
                       k \in (rev_idx + 1)..Len(insert_positions) })
             /\ NoInsertionNextTo(INVALID_POS_CHARS)

\* C8: marked indices are collected ascending and applied descending, so
\* that each marked index gets exactly one character between code points
\* i-1 and i, no inserted character is next to another inserted character
\* or to a character of the invalid-position set (ASCII punctuation,
\* whitespace, CJK space), no unmarked boundary gets one, and the input's
\* code points keep their order.
C8_OrderSafeInsertion ==
    /\ Ascending(insert_positions)
    /\ pc \in {"insert", "done"} /\ ~IsBlankText(text)
          => /\ InsertionsExactlyAt(
                   { insert_positions[k] :
                       k \in (rev_idx + 1)..Len(insert_positions) })
             /\ NoInsertionNextTo(InvalidPositionCharset)

OrderSafeWitness ==
    ReturnedMarked /\ Len(insert_positions) >= 2

----------------------------------------------------------------------------
(* C9 *)

\* what holds in every state of the window
C9_State ==
    /\ pc = "entry" => ~IsBlankText(text)
    /\ dialog # "No results to copy!"
    /\ copy_enabled => CopiedText(result_edit) # <<>>
    /\ (copy_enabled /\ pc = "idle")
          => /\ result_edit = ret
             /\ ~IsBlankText(text)
             /\ Len(ret) >= Len(text) + 3
    /\ (~copy_enabled /\ pc = "idle") => result_edit = <<>>

\* a process action on an input that is blank after trimming
C9_BlankProcessStep ==
    (pc = "idle" /\ event' = "process" /\ ops' # ops /\ IsBlankText(input_edit))
        => /\ result_edit' = result_edit
           /\ copy_enabled' = copy_enabled
           /\ pc' = "idle"
           /\ dialog' = "Please enter the original content first!"

----------------------------------------------------------------------------
(* C10 *)

\* C10: a copy action after a process action puts on the clipboard exactly
\* the string the routine returned.
C10_CopyFidelity ==
    (event = "copy" /\ pc = "idle") => clipboard = ret

\* what the handler does copy: the returned string through toPlainText and
\* strip(); under the Mild level that is the returned string
CopyStripsResult ==
    (event = "copy" /\ pc = "idle")
        => /\ clipboard = CopiedText(ret)
           /\ level = "Mild" => clipboard = ret

====
